---- MODULE Spec2Model ----
(***************************************************************************)
(* block_profiler.py: profile_range partitions [start, end] into chunks,   *)
(* profile_chunk walks the blocks of a chunk, fetches the receipts of a    *)
(* block through a thread pool, classifies and folds every transaction as  *)
(* its receipt arrives, and profile_range merges the chunk summaries.      *)
(*                                                                         *)
(* Python ints are unbounded.  Wei amounts are therefore kept as sequences *)
(* of decimal digits, least significant digit first, without leading       *)
(* zeros (zero is <<>>); counts, gas and gas prices stay small and are     *)
(* plain integers.  A decimal.Decimal is the pair (coefficient, exponent)  *)
(* the decimal module keeps, under the context precision set on line 48.   *)
(* str() of a Decimal and Decimal() of that string carry exactly this      *)
(* pair, so a summary's "..._eth" string is modelled by the pair.          *)
(* The CSV sink (lines 231-239, 287-297) is write-only and is left out.    *)
(***************************************************************************)
EXTENDS Integers, Sequences, FiniteSets, TLC

VARIABLES cfg, chain, codeAt, pc, cur, chunk_end, bnum, tb, ck, futures,
          fut, agg, chunk, overall, hist

vars == <<cfg, chain, codeAt, pc, cur, chunk_end, bnum, tb, ck, futures,
          fut, agg, chunk, overall, hist>>

None == "None"

\* an Optional[int]: <<>> is None, <<n>> is n
NoInt == <<>>

Some(n) == <<n>>

Max(a, b) == IF a >= b THEN a ELSE b

Min(a, b) == IF a <= b THEN a ELSE b

(***************************************************************************)
(* Python int arithmetic on wei amounts (digit sequences).                 *)
(***************************************************************************)
RECURSIVE ToDigits(_)
ToDigits(n) == IF n = 0 THEN <<>> ELSE <<n % 10>> \o ToDigits(n \div 10)

Zeros(k) == [i \in 1..k |-> 0]

\* 10^k + n as a wei amount, for n < 10^k
Pow10Plus(k, n) ==
    LET low == ToDigits(n)
    IN  low \o Zeros(k - Len(low)) \o <<1>>

RECURSIVE AddCarry(_, _, _)
AddCarry(a, b, c) ==
    IF a = <<>> /\ b = <<>>
    THEN (IF c = 0 THEN <<>> ELSE <<c>>)
    ELSE LET x == IF a = <<>> THEN 0 ELSE Head(a)
             y == IF b = <<>> THEN 0 ELSE Head(b)
             s == x + y + c
         IN  <<s % 10>> \o AddCarry(IF a = <<>> THEN <<>> ELSE Tail(a),
                                     IF b = <<>> THEN <<>> ELSE Tail(b),
                                     s \div 10)

IntAdd(a, b) == AddCarry(a, b, 0)

RECURSIVE IntSum(_)
IntSum(s) == IF s = <<>> THEN <<>> ELSE IntAdd(Head(s), IntSum(Tail(s)))

\* number of low-order zero digits of a non-zero amount
RECURSIVE TrailingZeros(_)
TrailingZeros(a) ==
    IF a = <<>> \/ Head(a) # 0 THEN 0 ELSE 1 + TrailingZeros(Tail(a))

(***************************************************************************)
(* decimal.Decimal under getcontext().prec.                                *)
(***************************************************************************)
DecimalPrec == 40

WeiPerEthExp == 18

\* Decimal._fix: a coefficient longer than the precision is rounded
\* half-even to the precision, the exponent taking up the dropped digits
DecimalFix(d) ==
    IF Len(d.int) <= DecimalPrec THEN d
    ELSE LET drop == Len(d.int) - DecimalPrec
             low  == SubSeq(d.int, 1, drop)
             kept == SubSeq(d.int, drop + 1, Len(d.int))
             rest == \E i \in 1..(drop - 1) : low[i] # 0
             up   == \/ low[drop] > 5
                     \/ low[drop] = 5 /\ rest
                     \/ low[drop] = 5 /\ ~rest /\ kept[1] % 2 = 1
             r    == IF up THEN IntAdd(kept, <<1>>) ELSE kept
         IN  IF Len(r) > DecimalPrec
             THEN [int |-> Tail(r), exp |-> d.exp + drop + 1]
             ELSE [int |-> r, exp |-> d.exp + drop]

\* Decimal(wei) / Decimal(10**18): the exact quotient wei * 10^-18, its
\* coefficient reduced towards the ideal exponent 0, then rounded
wei_to_eth(wei) ==
    IF wei = <<>> THEN [int |-> <<>>, exp |-> 0]
    ELSE LET k == Min(TrailingZeros(wei), WeiPerEthExp)
         IN  DecimalFix([int |-> SubSeq(wei, k + 1, Len(wei)),
                         exp |-> k - WeiPerEthExp])

\* int(Decimal(s) * Decimal(10**18)): the product is rounded to the
\* precision, int() truncates towards zero
eth_to_wei(d) ==
    IF d.int = <<>> THEN <<>>
    ELSE LET p == DecimalFix([int |-> Zeros(WeiPerEthExp) \o d.int, exp |-> d.exp])
         IN  IF p.exp >= 0 THEN Zeros(p.exp) \o p.int
             ELSE IF -p.exp >= Len(p.int) THEN <<>>
             ELSE SubSeq(p.int, 1 - p.exp, Len(p.int))

\* the numeric value of a Decimal holding a whole number of wei, in wei
DecimalWei(d) ==
    IF d.int = <<>> THEN <<>> ELSE Zeros(d.exp + WeiPerEthExp) \o d.int

(***************************************************************************)
(* Average gas price, in units of 0.0001 gwei (10^5 wei):                  *)
(* (Decimal(sum) / Decimal(max(count, 1)) / Decimal(1e9)).quantize(0.0001) *)
(* rounds half-even.  The two divisions are exact to 40 digits, which      *)
(* cannot move a quotient of these sizes across a rounding boundary.       *)
(***************************************************************************)
WeiPerQuantum == 100000

avg_gas_price_gwei(gas_price_wei_sum, count) ==
    LET den == Max(count, 1) * WeiPerQuantum
        q   == gas_price_wei_sum \div den
        r   == gas_price_wei_sum % den
    IN  IF 2 * r > den \/ (2 * r = den /\ q % 2 = 1) THEN q + 1 ELSE q

\* variant: the average is scaled by 1e8, not 1e9
gas_price_sum_from_avg_Scale(avg, count) == avg * (WeiPerQuantum \div 10) * count

\* variant: the rounded average is taken for the sum (the count is left out)
gas_price_sum_from_avg_NoCount(avg, count) == avg * WeiPerQuantum

\* int(Decimal(str(avg)) * Decimal(1e9) * Decimal(count))
gas_price_sum_from_avg(avg, count) == avg * WeiPerQuantum * count

(***************************************************************************)
(* Strings, Counter and the event-signature table.                         *)
(***************************************************************************)
\* str.lower() on the addresses and topic hashes of the ledger
Lower(s) ==
    CASE s = "0xA" -> "0xa"
      [] s = "0xS" -> "0xs"
      [] s = "0xT" -> "0xt"
      [] s = "0xDDF2" -> "0xddf2"
      [] OTHER -> s

SIG_TRANSFER == "0xddf2"

SIG_ERC1155_SINGLE == "0xc3d5"

SIG_ERC1155_BATCH == "0x4a39"

\* a collections.Counter: <<key, count>> pairs in insertion order
CounterAdd(c, k, n) ==
    IF \E i \in 1..Len(c) : c[i][1] = k
    THEN [i \in 1..Len(c) |-> IF c[i][1] = k THEN <<k, c[i][2] + n>> ELSE c[i]]
    ELSE Append(c, <<k, n>>)

CounterGet(c, k) ==
    IF \E i \in 1..Len(c) : c[i][1] = k
    THEN (CHOOSE p \in {c[i] : i \in 1..Len(c)} : p[1] = k)[2]
    ELSE 0

\* insert p behind every pair whose count is at least p's (stable, descending)
RECURSIVE InsertDesc(_, _)
InsertDesc(sorted, p) ==
    IF sorted = <<>> THEN <<p>>
    ELSE IF Head(sorted)[2] >= p[2]
         THEN <<Head(sorted)>> \o InsertDesc(Tail(sorted), p)
         ELSE <<p>> \o sorted

RECURSIVE SortDesc(_, _)
SortDesc(c, sorted) ==
    IF c = <<>> THEN sorted ELSE SortDesc(Tail(c), InsertDesc(sorted, Head(c)))

TopN == 20

\* Counter.most_common(n): highest counts first, ties in insertion order
most_common(c, n) ==
    LET s == SortDesc(c, <<>>) IN SubSeq(s, 1, Min(n, Len(s)))

(***************************************************************************)
(* classify_from_logs                                                      *)
(***************************************************************************)
\* variant: any non-empty data, "0x" included, counts as an amount
ScanLog_AnyData(st, lg) ==
    IF lg.topics = <<>> THEN st
    ELSE LET t0   == Lower(lg.topics[1])
             addr == Lower(lg.address)
             tok  == IF addr # "" THEN CounterAdd(st.tokens, addr, 1) ELSE st.tokens
         IN  IF t0 = Lower(SIG_TRANSFER)
             THEN IF lg.data # None /\ lg.data # ""
                  THEN [st EXCEPT !.erc20_count = @ + 1, !.tokens = tok]
                  ELSE [st EXCEPT !.erc721_count = @ + 1, !.tokens = tok]
             ELSE IF t0 \in {Lower(SIG_ERC1155_SINGLE), Lower(SIG_ERC1155_BATCH)}
                  THEN [st EXCEPT !.erc1155_count = @ + 1, !.tokens = tok]
                  ELSE st

\* one pass of the for loop of classify_from_logs over the log lg
ScanLog(st, lg) ==
    IF lg.topics = <<>> THEN st
    ELSE LET t0   == Lower(lg.topics[1])
             addr == Lower(lg.address)
             tok  == IF addr # "" THEN CounterAdd(st.tokens, addr, 1) ELSE st.tokens
         IN  IF t0 = Lower(SIG_TRANSFER)
             THEN IF lg.data # None /\ lg.data # "" /\ lg.data # "0x"
                  THEN [st EXCEPT !.erc20_count = @ + 1, !.tokens = tok]
                  ELSE [st EXCEPT !.erc721_count = @ + 1, !.tokens = tok]
             ELSE IF t0 \in {Lower(SIG_ERC1155_SINGLE), Lower(SIG_ERC1155_BATCH)}
                  THEN [st EXCEPT !.erc1155_count = @ + 1, !.tokens = tok]
                  ELSE st

RECURSIVE ScanLogs(_, _)
ScanLogs(st, logs) ==
    IF logs = <<>> THEN st ELSE ScanLogs(ScanLog(st, Head(logs)), Tail(logs))

\* returns <<type, dominant token address or None>>
classify_from_logs(logs) ==
    LET st == ScanLogs([erc20_count |-> 0, erc721_count |-> 0,
                        erc1155_count |-> 0, tokens |-> <<>>], logs)
        dominant == IF st.tokens # <<>> THEN most_common(st.tokens, 1)[1][1] ELSE None
    IN  IF st.erc20_count > 0 /\ st.erc721_count = 0 /\ st.erc1155_count = 0
        THEN <<"erc20_transfer", dominant>>
        ELSE IF st.erc721_count > 0 /\ st.erc20_count = 0 /\ st.erc1155_count = 0
        THEN <<"erc721_transfer", dominant>>
        ELSE IF st.erc1155_count > 0 /\ st.erc20_count = 0 /\ st.erc721_count = 0
        THEN <<"erc1155_transfer", dominant>>
        ELSE IF st.erc20_count # 0 \/ st.erc721_count # 0 \/ st.erc1155_count # 0
        THEN <<"mixed_token_activity", dominant>>
        ELSE <<"other_contract_call", None>>

(***************************************************************************)
(* is_contract and the fold of one (transaction, receipt) pair             *)
(***************************************************************************)
\* what w3.eth.get_code answers for an address: bytes, or it raises
CodeAnswers == {"empty", "zero_byte", "code", "raises"}

\* variant: a failed lookup counts as code present
is_contract_FailOpen(code) ==
    IF code = "raises" THEN TRUE
    ELSE code # None /\ code # "empty" /\ code # "zero_byte"

is_contract(code) ==
    IF code = "raises" THEN FALSE
    ELSE code # None /\ code # "empty" /\ code # "zero_byte"

TxStats == [count |-> 0, gas_used |-> 0, gas_price_wei_sum |-> 0,
            eth_value_wei_sum |-> <<>>]

\* defaultdict(TxStats)[k]
StatsOf(d, k) == IF k \in DOMAIN d THEN d[k] ELSE TxStats

DictPut(d, k, v) == [x \in DOMAIN d \cup {k} |-> IF x = k THEN v ELSE d[x]]

\* variant: the value is tested before the logs
Classify_ValueFirst(tx, contract_cache, skip_contract_check, code) ==
    IF tx.to = None THEN <<"contract_creation", None, contract_cache>>
    ELSE LET r == classify_from_logs(tx.logs)
         IN  IF tx.value # <<>> THEN <<"eth_transfer", r[2], contract_cache>>
             ELSE IF r[1] # "other_contract_call" THEN <<r[1], r[2], contract_cache>>
             ELSE IF skip_contract_check THEN <<r[1], r[2], contract_cache>>
             ELSE LET addr  == Lower(tx.to)
                      cache == IF addr \in DOMAIN contract_cache THEN contract_cache
                               ELSE DictPut(contract_cache, addr, is_contract(code[addr]))
                  IN  <<IF cache[addr] THEN r[1] ELSE "other_eoa_call", r[2], cache>>

\* variant: the cache holds one flag, whatever the recipient's address
Classify_OneFlag(tx, contract_cache, skip_contract_check, code) ==
    IF tx.to = None THEN <<"contract_creation", None, contract_cache>>
    ELSE LET r == classify_from_logs(tx.logs)
         IN  IF r[1] # "other_contract_call" THEN <<r[1], r[2], contract_cache>>
             ELSE IF tx.value # <<>> THEN <<"eth_transfer", r[2], contract_cache>>
             ELSE IF skip_contract_check THEN <<r[1], r[2], contract_cache>>
             ELSE LET addr  == Lower(tx.to)
                      cache == IF "to" \in DOMAIN contract_cache THEN contract_cache
                               ELSE DictPut(contract_cache, "to", is_contract(code[addr]))
                  IN  <<IF cache["to"] THEN r[1] ELSE "other_eoa_call", r[2], cache>>

\* lines 200-212: <<tx_type, token_or_contract, contract_cache>>
Classify(tx, contract_cache, skip_contract_check, code) ==
    IF tx.to = None THEN <<"contract_creation", None, contract_cache>>
    ELSE LET r == classify_from_logs(tx.logs)
         IN  IF r[1] # "other_contract_call" THEN <<r[1], r[2], contract_cache>>
             ELSE IF tx.value # <<>> THEN <<"eth_transfer", r[2], contract_cache>>
             ELSE IF skip_contract_check THEN <<r[1], r[2], contract_cache>>
             ELSE LET addr  == Lower(tx.to)
                      cache == IF addr \in DOMAIN contract_cache THEN contract_cache
                               ELSE DictPut(contract_cache, addr, is_contract(code[addr]))
                  IN  <<IF cache[addr] THEN r[1] ELSE "other_eoa_call", r[2], cache>>

\* the truth value of an Optional[str]: None and "" are false (lines 191,
\* 193, 223, 225)
Truthy(s) == s # None /\ s # ""

\* lines 190-194: the part of the loop body before the classification
FoldHead(c, tx) ==
    [c EXCEPT
       !.total_tx = @ + 1,
       !.unique_from = IF Truthy(tx.from) THEN @ \cup {Lower(tx.from)} ELSE @,
       !.unique_to = IF Truthy(tx.to) THEN @ \cup {Lower(tx.to)} ELSE @]

\* lines 196-226: the classification and the part of the loop body after it
FoldRest(c, tx, skip_contract_check, code) ==
    LET cl    == Classify(tx, c.contract_cache, skip_contract_check, code)
        stats == StatsOf(c.tx_type_stats, cl[1])
    IN  [c EXCEPT
           !.contract_cache = cl[3],
           !.tx_type_stats = DictPut(@, cl[1],
               [count |-> stats.count + 1,
                gas_used |-> stats.gas_used + tx.gasUsed,
                gas_price_wei_sum |-> stats.gas_price_wei_sum + tx.gasPrice,
                eth_value_wei_sum |-> IntAdd(stats.eth_value_wei_sum, tx.value)]),
           !.total_eth_wei = IntAdd(@, tx.value),
           !.top_contracts = IF Truthy(tx.to) THEN CounterAdd(@, Lower(tx.to), 1) ELSE @,
           !.top_tokens = IF Truthy(cl[2]) THEN CounterAdd(@, Lower(cl[2]), 1) ELSE @]

\* lines 190-226: the body of the as_completed loop for a fetched receipt
Fold(c, tx, skip_contract_check, code) ==
    FoldRest(FoldHead(c, tx), tx, skip_contract_check, code)

\* line 209-210: the classification asks the ledger for the recipient's code
CacheMiss(tx, contract_cache, skip_contract_check, code) ==
    DOMAIN Classify(tx, contract_cache, skip_contract_check, code)[3]
        # DOMAIN contract_cache

\* lines 162-170: the locals of profile_chunk
NewChunk ==
    [tx_type_stats |-> <<>>, unique_from |-> {}, unique_to |-> {},
     total_eth_wei |-> <<>>, total_tx |-> 0, top_contracts |-> <<>>,
     top_tokens |-> <<>>, contract_cache |-> <<>>, internal_total |-> <<>>]

(***************************************************************************)
(* Internal value tracing                                                  *)
(***************************************************************************)
\* what trace_block answers for a block: a list of traces
ErigonReply(b) ==
    << [type |-> "call",   value |-> Some(ToDigits(b))],
       [type |-> "create", value |-> Some(ToDigits(5))],
       [type |-> "call",   value |-> NoInt] >>

\* what debug_traceBlockByNumber answers: one call tree per transaction
GethReply(b) ==
    << [result |-> [value |-> Some(ToDigits(b)),
                    calls |-> << [value |-> Some(ToDigits(2)), calls |-> <<>>],
                                 [value |-> NoInt, calls |-> <<>>] >>]] >>

\* lines 113-124; the value NoInt stands for one that is no "0x" string
RECURSIVE SumCallTraces(_)
SumCallTraces(traces) ==
    IF traces = <<>> THEN <<>>
    ELSE LET tr == Head(traces)
         IN  IF tr.type = "call" /\ tr.value # NoInt
             THEN IntAdd(tr.value[1], SumCallTraces(Tail(traces)))
             ELSE SumCallTraces(Tail(traces))

trace_internal_value_erigon(raises, b) ==
    IF raises THEN <<>> ELSE SumCallTraces(ErigonReply(b))

\* lines 136-143: walk adds the node's value and descends into its calls
RECURSIVE walk(_)
RECURSIVE WalkCalls(_)
walk(node) ==
    IntAdd(IF node.value # NoInt THEN node.value[1] ELSE <<>>, WalkCalls(node.calls))

WalkCalls(calls) ==
    IF calls = <<>> THEN <<>> ELSE IntAdd(walk(Head(calls)), WalkCalls(Tail(calls)))

RECURSIVE WalkResults(_)
WalkResults(rs) ==
    IF rs = <<>> THEN <<>> ELSE IntAdd(walk(Head(rs).result), WalkResults(Tail(rs)))

trace_internal_value_geth(raises, b) ==
    IF raises THEN <<>> ELSE WalkResults(GethReply(b))

\* lines 247-250: one pass of the tracing loop
TraceValue(trace_mode, raises, b) ==
    IF trace_mode = "erigon" THEN trace_internal_value_erigon(raises, b)
    ELSE IF trace_mode = "geth" THEN trace_internal_value_geth(raises, b)
    ELSE <<>>

(***************************************************************************)
(* The chunk summary, the merge and the overall summary                    *)
(***************************************************************************)
\* lines 262-267 and 366-371: one entry of "tx_types"
TypeRow(v) ==
    [count |-> v.count,
     gas_used |-> v.gas_used,
     avg_gas_price_gwei |->
         IF v.count # 0 THEN avg_gas_price_gwei(v.gas_price_wei_sum, v.count) ELSE 0,
     eth_value_sum_eth |-> wei_to_eth(v.eth_value_wei_sum)]

\* lines 252-273
ChunkSummary(c, start, end) ==
    [start_block |-> start,
     end_block |-> end,
     block_count |-> end - start + 1,
     total_tx |-> c.total_tx,
     unique_senders |-> Cardinality(c.unique_from),
     unique_receivers |-> Cardinality(c.unique_to),
     total_eth_transferred_eth |-> wei_to_eth(c.total_eth_wei),
     total_internal_value_eth |-> wei_to_eth(c.internal_total),
     tx_types |-> [k \in DOMAIN c.tx_type_stats |-> TypeRow(c.tx_type_stats[k])],
     top_contracts_by_tx |-> most_common(c.top_contracts, TopN),
     top_tokens_by_events |-> most_common(c.top_tokens, TopN)]

\* lines 299-324 ("notes" is a fixed text and is left out)
NewOverall(c) ==
    [start_block |-> c.start,
     end_block |-> c.end,
     chain_id |-> 1,
     block_count |-> c.end - c.start + 1,
     total_tx |-> 0,
     unique_senders |-> -1,
     unique_receivers |-> -1,
     total_eth_transferred_eth |-> [int |-> <<>>, exp |-> 0],
     total_internal_value_eth |-> [int |-> <<>>, exp |-> 0],
     tx_types |-> <<>>,
     top_contracts_by_tx |-> <<>>,
     top_tokens_by_events |-> <<>>,
     limits |-> [tx_cap |-> c.tx_cap,
                 skip_contract_check |-> c.skip_contract_check,
                 concurrency |-> c.concurrency,
                 chunk_size |-> c.chunk_size,
                 trace_mode |-> c.trace_mode]]

\* lines 326-328
NewAgg ==
    [tx_types_agg |-> <<>>, top_contracts |-> <<>>, top_tokens |-> <<>>,
     total_eth_wei_acc |-> <<>>, internal_wei_acc |-> <<>>, total_tx_acc |-> 0]

\* lines 346-351
MergeTypes(d, types) ==
    [k \in DOMAIN d \cup DOMAIN types |->
        IF k \in DOMAIN types
        THEN LET s == StatsOf(d, k)
                 v == types[k]
             IN  [count |-> s.count + v.count,
                  gas_used |-> s.gas_used + v.gas_used,
                  gas_price_wei_sum |-> s.gas_price_wei_sum
                      + gas_price_sum_from_avg(v.avg_gas_price_gwei, v.count),
                  eth_value_wei_sum |->
                      IntAdd(s.eth_value_wei_sum, eth_to_wei(v.eth_value_sum_eth))]
        ELSE d[k]]

\* lines 353-356: for addr, c in pairs: counter[addr] += c
RECURSIVE CounterUpdate(_, _)
CounterUpdate(c, pairs) ==
    IF pairs = <<>> THEN c
    ELSE CounterUpdate(CounterAdd(c, Head(pairs)[1], Head(pairs)[2]), Tail(pairs))

\* lines 342-356
Merge(a, s) ==
    [tx_types_agg |-> MergeTypes(a.tx_types_agg, s.tx_types),
     top_contracts |-> CounterUpdate(a.top_contracts, s.top_contracts_by_tx),
     top_tokens |-> CounterUpdate(a.top_tokens, s.top_tokens_by_events),
     total_eth_wei_acc |->
         IntAdd(a.total_eth_wei_acc, eth_to_wei(s.total_eth_transferred_eth)),
     internal_wei_acc |->
         IntAdd(a.internal_wei_acc, eth_to_wei(s.total_internal_value_eth)),
     total_tx_acc |-> a.total_tx_acc + s.total_tx]

\* lines 362-375
Finalize(o, a) ==
    [o EXCEPT
       !.total_tx = a.total_tx_acc,
       !.total_eth_transferred_eth = wei_to_eth(a.total_eth_wei_acc),
       !.total_internal_value_eth = wei_to_eth(a.internal_wei_acc),
       !.tx_types = [k \in DOMAIN a.tx_types_agg |-> TypeRow(a.tx_types_agg[k])],
       !.top_contracts_by_tx = most_common(a.top_contracts, TopN),
       !.top_tokens_by_events = most_common(a.top_tokens, TopN)]

\* line 381: json.dump has no encoder for the Decimal that quantize returns
\* for every category with a non-zero count
JsonSerializable(o) == \A k \in DOMAIN o.tx_types : o.tx_types[k].count = 0

(***************************************************************************)
(* The run: profile_range from line 330 on, with profile_chunk inlined.    *)
(*   pc = "range_loop"    at the test of the while loop, line 332          *)
(*        "block_loop"    at the head of the for loop, line 175            *)
(*        "as_completed"  in the loop over the block's futures, line 183   *)
(*        "get_code"      in the body of that loop, waiting at line 210     *)
(*                        for the code of the recipient of future fut      *)
(*        "pool_exit"     leaving the with block, which joins the pool     *)
(*        "trace"         in the tracing loop, lines 244-250               *)
(*        "dump"          overall is complete, before json.dump, line 380  *)
(*        "done"          profile_range returned                           *)
(*        "raised_get_block", "raised_json"  an exception left the run     *)
(* futures[i] is the state of the fetch of the i-th transaction of the     *)
(* block: "queued", "running", "finished" (result not yet taken by         *)
(* as_completed) or "yielded".                                             *)
(* hist records what the run did, for the properties below: the chunks     *)
(* entered, the blocks fetched, the receipts requested, folded and         *)
(* dropped, the get_code lookups, the chunk summaries, and whether the cap *)
(* ever left a fetched receipt of a block unfolded (cut).  A call of       *)
(* profile_chunk that repeats the one before it (same range, same summary) *)
(* is recorded once.                                                       *)
(***************************************************************************)
Txs(b) == chain[b]

NumRunning == Cardinality({i \in DOMAIN futures : futures[i] = "running"})

AllYielded(f) == \A i \in DOMAIN f : f[i] = "yielded"

CapReached(c) == cfg.tx_cap # NoInt /\ c.total_tx >= cfg.tx_cap[1]

Unchanged_inputs == UNCHANGED <<cfg, chain, codeAt>>

\* q with x as its last entry
Record(q, x) == IF q # <<>> /\ q[Len(q)] = x THEN q ELSE Append(q, x)

\* variant: the chunk's end is not held to the end of the range
StartChunk_NoMin ==
    /\ pc = "range_loop"
    /\ cur <= cfg.end
    /\ chunk_end' = cur + cfg.chunk_size - 1
    /\ ck' = NewChunk
    /\ bnum' = cur
    /\ tb' = cur
    /\ futures' = <<>>
    /\ pc' = IF cur <= chunk_end' THEN "block_loop" ELSE "trace"
    /\ hist' = [hist EXCEPT !.chunks = Record(@, <<cur, chunk_end'>>)]
    /\ UNCHANGED <<fut, cur, agg, chunk, overall>>
    /\ Unchanged_inputs

\* line 332-341: the loop test holds; profile_chunk is entered
StartChunk ==
    /\ pc = "range_loop"
    /\ cur <= cfg.end
    /\ chunk_end' = Min(cur + cfg.chunk_size - 1, cfg.end)
    /\ ck' = NewChunk
    /\ bnum' = cur
    /\ tb' = cur
    /\ futures' = <<>>
    /\ pc' = IF cur <= chunk_end' THEN "block_loop" ELSE "trace"
    /\ hist' = [hist EXCEPT !.chunks = Record(@, <<cur, chunk_end'>>)]
    /\ UNCHANGED <<fut, cur, agg, chunk, overall>>
    /\ Unchanged_inputs

\* lines 176-180: the block is fetched and every receipt fetch is submitted
GetBlock ==
    /\ pc = "block_loop"
    /\ futures' = [i \in 1..Len(Txs(bnum)) |-> "queued"]
    /\ pc' = IF Txs(bnum) = <<>> THEN "pool_exit" ELSE "as_completed"
    /\ hist' = [hist EXCEPT !.fetched = Append(@, bnum)]
    /\ UNCHANGED <<fut, cur, chunk_end, bnum, tb, ck, agg, chunk, overall>>
    /\ Unchanged_inputs

\* line 176: get_block raises; nothing catches it
GetBlockRaises ==
    /\ pc = "block_loop"
    /\ pc' = "raised_get_block"
    /\ UNCHANGED <<fut, cur, chunk_end, bnum, tb, ck, futures, agg, chunk, overall, hist>>
    /\ Unchanged_inputs

\* a pool thread takes the oldest queued fetch (lines 172-173, 179-180)
WorkerStart(i) ==
    /\ pc \in {"as_completed", "get_code", "pool_exit"}
    /\ futures[i] = "queued"
    /\ \A j \in 1..(i - 1) : futures[j] # "queued"
    /\ NumRunning < Max(1, cfg.concurrency)
    /\ futures' = [futures EXCEPT ![i] = "running"]
    /\ hist' = [hist EXCEPT !.requested = Append(@, <<bnum, i>>)]
    /\ UNCHANGED <<fut, pc, cur, chunk_end, bnum, tb, ck, agg, chunk, overall>>
    /\ Unchanged_inputs

\* variant: the fetch task counts the transaction itself, in the shared
\* total_tx
WorkerFinish_Counts(i) ==
    /\ pc \in {"as_completed", "get_code", "pool_exit"}
    /\ futures[i] = "running"
    /\ futures' = [futures EXCEPT ![i] = "finished"]
    /\ ck' = [ck EXCEPT !.total_tx = @ + 1]
    /\ UNCHANGED <<fut, pc, cur, chunk_end, bnum, tb, agg, chunk, overall, hist>>
    /\ Unchanged_inputs

\* get_transaction_receipt returns or raises; the future is done
WorkerFinish(i) ==
    /\ pc \in {"as_completed", "get_code", "pool_exit"}
    /\ futures[i] = "running"
    /\ futures' = [futures EXCEPT ![i] = "finished"]
    /\ UNCHANGED <<fut, pc, cur, chunk_end, bnum, tb, ck, agg, chunk, overall, hist>>
    /\ Unchanged_inputs

\* what the end of the loop body records for transaction i, folded into c
Folded(i, c) ==
    [hist EXCEPT
       !.folded = Append(@,
           [id |-> <<bnum, i>>,
            tx_type |-> Classify(Txs(bnum)[i], ck.contract_cache,
                                 cfg.skip_contract_check, codeAt)[1],
            cache |-> c.contract_cache]),
       !.lookups = IF DOMAIN c.contract_cache = DOMAIN ck.contract_cache
                   THEN @
                   ELSE Append(@, Lower(Txs(bnum)[i].to)),
       !.cut = @ \/ (CapReached(c) /\ \E j \in DOMAIN futures :
                        j # i /\ futures[j] # "yielded" /\ Txs(bnum)[j].ok)]

\* lines 183-229: as_completed yields a future whose fetch returned; the
\* body runs to its end, or up to the get_code call of line 210 when the
\* recipient is not in the cache
FoldReceipt(i) ==
    /\ pc = "as_completed"
    /\ futures[i] = "finished"
    /\ Txs(bnum)[i].ok
    /\ futures' = [futures EXCEPT ![i] = "yielded"]
    /\ IF CacheMiss(Txs(bnum)[i], ck.contract_cache, cfg.skip_contract_check, codeAt)
       THEN /\ ck' = FoldHead(ck, Txs(bnum)[i])
            /\ fut' = i
            /\ pc' = "get_code"
            /\ hist' = hist
       ELSE /\ ck' = Fold(ck, Txs(bnum)[i], cfg.skip_contract_check, codeAt)
            /\ fut' = fut
            /\ pc' = IF CapReached(ck') \/ AllYielded(futures') THEN "pool_exit"
                     ELSE "as_completed"
            /\ hist' = Folded(i, ck')
    /\ UNCHANGED <<cur, chunk_end, bnum, tb, agg, chunk, overall>>
    /\ Unchanged_inputs

\* lines 210-229: get_code answers (is_contract returns) and the body of
\* the loop runs to its end
GetCodeReturns ==
    /\ pc = "get_code"
    /\ ck' = FoldRest(ck, Txs(bnum)[fut], cfg.skip_contract_check, codeAt)
    /\ fut' = 0
    /\ pc' = IF CapReached(ck') \/ AllYielded(futures) THEN "pool_exit"
             ELSE "as_completed"
    /\ hist' = Folded(fut, ck')
    /\ UNCHANGED <<cur, chunk_end, bnum, tb, futures, agg, chunk, overall>>
    /\ Unchanged_inputs

\* variant: a failed fetch leaves the loop over the block's futures
DropReceipt_Aborts(i) ==
    /\ pc = "as_completed"
    /\ futures[i] = "finished"
    /\ ~Txs(bnum)[i].ok
    /\ futures' = [futures EXCEPT ![i] = "yielded"]
    /\ pc' = "pool_exit"
    /\ hist' = [hist EXCEPT !.dropped = Append(@, <<bnum, i>>)]
    /\ UNCHANGED <<fut, cur, chunk_end, bnum, tb, ck, agg, chunk, overall>>
    /\ Unchanged_inputs

\* lines 185-188: the fetch raised; the transaction is skipped
DropReceipt(i) ==
    /\ pc = "as_completed"
    /\ futures[i] = "finished"
    /\ ~Txs(bnum)[i].ok
    /\ futures' = [futures EXCEPT ![i] = "yielded"]
    /\ pc' = IF AllYielded(futures') THEN "pool_exit" ELSE "as_completed"
    /\ hist' = [hist EXCEPT !.dropped = Append(@, <<bnum, i>>)]
    /\ UNCHANGED <<fut, cur, chunk_end, bnum, tb, ck, agg, chunk, overall>>
    /\ Unchanged_inputs

\* variant: the pool is left without waiting for its fetches
PoolExit_NoJoin ==
    /\ pc = "pool_exit"
    /\ futures' = <<>>
    /\ IF CapReached(ck) \/ bnum + 1 > chunk_end
       THEN pc' = "trace" /\ bnum' = bnum
       ELSE pc' = "block_loop" /\ bnum' = bnum + 1
    /\ UNCHANGED <<fut, cur, chunk_end, tb, ck, agg, chunk, overall, hist>>
    /\ Unchanged_inputs

\* the with block ends once every submitted fetch is done (the pool is
\* joined); lines 241-242 then leave the block loop when the cap is reached
PoolExit ==
    /\ pc = "pool_exit"
    /\ \A i \in DOMAIN futures : futures[i] \in {"finished", "yielded"}
    /\ futures' = <<>>
    /\ IF CapReached(ck) \/ bnum + 1 > chunk_end
       THEN pc' = "trace" /\ bnum' = bnum
       ELSE pc' = "block_loop" /\ bnum' = bnum + 1
    /\ UNCHANGED <<fut, cur, chunk_end, tb, ck, agg, chunk, overall, hist>>
    /\ Unchanged_inputs

\* lines 245-250: one block of the tracing pass
TraceBlock ==
    /\ pc = "trace"
    /\ cfg.trace_mode # "none"
    /\ tb <= chunk_end
    /\ \E raises \in BOOLEAN :
          ck' = [ck EXCEPT !.internal_total =
                    IntAdd(@, TraceValue(cfg.trace_mode, raises, tb))]
    /\ tb' = tb + 1
    /\ UNCHANGED <<fut, pc, cur, chunk_end, bnum, futures, agg, chunk, overall, hist>>
    /\ Unchanged_inputs

\* lines 252-273 and 342-359: profile_chunk returns its summary, which
\* profile_range merges
ReturnChunk ==
    /\ pc = "trace"
    /\ (cfg.trace_mode = "none" \/ tb > chunk_end)
    /\ chunk' = ChunkSummary(ck, cur, chunk_end)
    /\ agg' = Merge(agg, chunk')
    /\ cur' = chunk_end + 1
    /\ pc' = "range_loop"
    /\ hist' = [hist EXCEPT !.summaries = Record(@, chunk')]
    /\ UNCHANGED <<fut, chunk_end, bnum, tb, ck, futures, overall>>
    /\ Unchanged_inputs

\* lines 360-375: the loop test fails; the overall summary is completed
Finish ==
    /\ pc = "range_loop"
    /\ cur > cfg.end
    /\ overall' = Finalize(overall, agg)
    /\ pc' = "dump"
    /\ UNCHANGED <<fut, cur, chunk_end, bnum, tb, ck, futures, agg, chunk, hist>>
    /\ Unchanged_inputs

\* lines 380-382
Dump ==
    /\ pc = "dump"
    /\ pc' = IF JsonSerializable(overall) THEN "done" ELSE "raised_json"
    /\ UNCHANGED <<fut, cur, chunk_end, bnum, tb, ck, futures, agg, chunk, overall, hist>>
    /\ Unchanged_inputs

Next ==
    \/ StartChunk
    \/ GetBlock
    \/ GetBlockRaises
    \/ \E i \in DOMAIN futures : WorkerStart(i)
    \/ \E i \in DOMAIN futures : WorkerFinish(i)
    \/ \E i \in DOMAIN futures : FoldReceipt(i)
    \/ GetCodeReturns
    \/ \E i \in DOMAIN futures : DropReceipt(i)
    \/ PoolExit
    \/ TraceBlock
    \/ ReturnChunk
    \/ Finish
    \/ Dump

(***************************************************************************)
(* Inputs: the configuration, the ledger and the outcome of every fetch.   *)
(***************************************************************************)
NumBlocks == 2

MaxTxs == 3

MaxLogs == 2

MaxWorkers == 2

MkTx(from, to, value, gasPrice, gasUsed, logs, ok) ==
    [from |-> from, to |-> to, value |-> value, gasPrice |-> gasPrice,
     gasUsed |-> gasUsed, logs |-> logs, ok |-> ok]

MkLog(topics, data, address) ==
    [topics |-> topics, data |-> data, address |-> address]

\* log entries a receipt may carry
LogKinds ==
    { MkLog(<<"0xDDF2", "0x01">>, "0xff", "0xT"),
      MkLog(<<SIG_TRANSFER>>, "0x", "0xu"),
      MkLog(<<SIG_TRANSFER>>, None, "0xt"),
      MkLog(<<SIG_ERC1155_SINGLE>>, "0xff", "0xu"),
      MkLog(<<SIG_ERC1155_BATCH>>, "", ""),
      MkLog(<<"0x8c5b">>, "0xff", "0xT"),
      MkLog(<<>>, "0xff", "0xu") }

SeqsUpTo(S, n) == UNION {[1..k -> S] : k \in 0..n}

\* a value no 40-digit coefficient holds: 10^40 + 4 wei
BigValue == Pow10Plus(DecimalPrec, 4)

TxEth(ok) == MkTx("0xS", "0xA", ToDigits(1), 150000, 21, <<>>, ok)

TxCall(ok) == MkTx("0xs", "0xb", <<>>, 50000, 30, <<>>, ok)

TxCallA(ok) == MkTx("0xS", "0xa", <<>>, 250000, 40, <<>>, ok)

TxBig(ok) == MkTx("0xs", "0xA", BigValue, 250000, 21, <<>>, ok)

TxToken(ok) ==
    MkTx("0xS", "0xa", <<>>, 50000, 50,
         <<MkLog(<<SIG_TRANSFER>>, "0xff", "0xT")>>, ok)

TxCreate(ok) ==
    MkTx("0xs", None, ToDigits(1), 150000, 90,
         <<MkLog(<<SIG_TRANSFER>>, "0xff", "0xT")>>, ok)

Ranges == {r \in (1..NumBlocks) \X (1..NumBlocks) : r[1] <= r[2]}

RECURSIVE TotalTxs(_, _, _)
TotalTxs(ch, b, e) == IF b > e THEN 0 ELSE Len(ch[b]) + TotalTxs(ch, b + 1, e)

\* the ledgers over blocks s..e with at most n transactions, each
\* transaction given as a choice in K
Chains(s, e, K, n) ==
    {x \in [s..e -> SeqsUpTo(K, n)] : TotalTxs(x, s, e) <= n}

Config(s, e, chunk_size, tx_cap, skip, concurrency, trace_mode) ==
    [start |-> s, end |-> e, chunk_size |-> chunk_size, tx_cap |-> tx_cap,
     skip_contract_check |-> skip, concurrency |-> concurrency,
     trace_mode |-> trace_mode]

NewHist ==
    [chunks |-> <<>>, fetched |-> <<>>, requested |-> <<>>, folded |-> <<>>,
     dropped |-> <<>>, lookups |-> <<>>, summaries |-> <<>>, cut |-> FALSE]

\* the state at line 330, for an accepted range (start <= end) and a
\* reachable endpoint
InitWith(c, ch, code) ==
    /\ cfg = c
    /\ chain = ch
    /\ codeAt = code
    /\ pc = "range_loop"
    /\ cur = c.start
    /\ chunk_end = c.start
    /\ bnum = c.start
    /\ tb = c.start
    /\ ck = NewChunk
    /\ futures = <<>>
    /\ fut = 0
    /\ agg = NewAgg
    /\ chunk = <<>>
    /\ overall = NewOverall(c)
    /\ hist = NewHist

DefaultCode == [a \in {"0xa", "0xb"} |-> IF a = "0xb" THEN "code" ELSE "empty"]

\* one block holding a creation, a value transfer, an ERC-20 transfer and
\* a lost receipt, traced
InitExample ==
    \E tm \in {"erigon", "geth"} :
       InitWith(Config(1, 1, 1, NoInt, FALSE, MaxWorkers, tm),
                [b \in 1..1 |-> <<TxCreate(TRUE), TxEth(TRUE), TxToken(TRUE),
                                  TxCall(FALSE)>>],
                DefaultCode)

\* transaction i of block b: a value transfer, a plain call to the contract
\* 0xb or a plain call to the account 0xa, by position
PosTx(b, i, ok) ==
    CASE (b + i) % 3 = 0 -> TxEth(ok)
      [] (b + i) % 3 = 1 -> TxCall(ok)
      [] OTHER -> TxCallA(ok)

PosChain(sh) == [b \in DOMAIN sh |-> [i \in 1..Len(sh[b]) |-> PosTx(b, i, sh[b][i])]]

Init ==
    \/ InitExample
    \/ \E r \in Ranges, cs \in 1..NumBlocks, cap \in {NoInt} \cup {Some(n) : n \in 0..(MaxTxs - 1)},
          w \in {0, MaxWorkers} :
         \E sh \in Chains(r[1], r[2], BOOLEAN, MaxTxs) :
            InitWith(Config(r[1], r[2], cs, cap, FALSE, w, "none"), PosChain(sh),
                     DefaultCode)

Spec == Init /\ [][Next]_vars

\* runs for the merge: no cap, one worker, every chunk size, with and
\* without tracing, ledgers of value transfers beyond the Decimal precision,
\* token transfers and lost receipts, and one ledger of plain calls whose
\* recipient's code is looked up
MergeTx(b, i, k) ==
    CASE k = "big" -> TxBig(TRUE)
      [] k = "token" -> TxToken(TRUE)
      [] OTHER -> TxCall(FALSE)

MergeChain(sh) == [b \in DOMAIN sh |-> [i \in 1..Len(sh[b]) |-> MergeTx(b, i, sh[b][i])]]

InitMerge ==
    \/ InitExample
    \/ \E e \in 1..NumBlocks, cs \in 1..NumBlocks, tm \in {"none", "erigon"} :
         \E sh \in Chains(1, e, {"big", "token", "lost"}, MaxTxs - 1) :
            InitWith(Config(1, e, cs, NoInt, FALSE, 1, tm), MergeChain(sh), DefaultCode)
    \/ \E cs \in 1..NumBlocks :
         InitWith(Config(1, NumBlocks, cs, NoInt, FALSE, 1, "none"),
                  [b \in 1..NumBlocks |-> <<TxCall(TRUE), TxBig(TRUE)>>],
                  DefaultCode)

SpecMerge == InitMerge /\ [][Next]_vars

\* the sender and recipient of a transaction: a recipient that is None, an
\* address or the empty string, a sender that is missing or empty
Parties ==
    {<<"0xS", None>>, <<"0xS", "0xA">>, <<"0xS", "0xb">>, <<"0xS", "">>,
     <<None, "0xb">>, <<"", "0xb">>}

\* runs for the classifiers: one block whose first transaction ranges over
\* every shape, followed by a plain call to 0xb
InitClassify ==
    \/ InitExample
    \/ \E ft \in Parties, v \in {<<>>, ToDigits(1)},
          logs \in SeqsUpTo(LogKinds, MaxLogs), skip \in BOOLEAN,
          code \in CodeAnswers :
         InitWith(Config(1, 1, 1, NoInt, skip, 1, "none"),
                  [b \in 1..1 |-> <<MkTx(ft[1], ft[2], v, 50000, 21, logs, TRUE),
                                    TxCall(TRUE)>>],
                  [a \in {"", "0xa", "0xb"} |-> code])

SpecClassify == InitClassify /\ [][Next]_vars

\* runs over several chunks: no cap, one worker, every chunk size; plain
\* calls to one account under two spellings, priced to either side of a
\* rounding step of the average, calls to a contract, value transfers
\* beyond the Decimal precision and creations
TxCallLow(ok) == MkTx("0xs", "0xa", <<>>, 150000, 30, <<>>, ok)

TxCallUp(ok) == MkTx("0xs", "0xA", <<>>, 140000, 30, <<>>, ok)

ChunkTx(b, i, k) ==
    CASE k = "a" -> TxCallLow(TRUE)
      [] k = "A" -> TxCallUp(TRUE)
      [] k = "b" -> TxCall(TRUE)
      [] k = "big" -> TxBig(TRUE)
      [] OTHER -> TxCreate(TRUE)

ChunkChain(sh) == [b \in DOMAIN sh |-> [i \in 1..Len(sh[b]) |-> ChunkTx(b, i, sh[b][i])]]

\* more recipients than most_common(20) keeps
Recipients ==
    <<"0x01", "0x02", "0x03", "0x04", "0x05", "0x06", "0x07", "0x08", "0x09",
      "0x10", "0x11", "0x12", "0x13", "0x14", "0x15", "0x16", "0x17", "0x18",
      "0x19", "0x20", "0x21">>

TxTo(addr) == MkTx("0xs", addr, <<>>, 50000, 30, <<>>, TRUE)

\* blocks 1..TopN+1 hold one call each, every one to a recipient of its
\* own; block TopN+2 holds two calls to the last of these recipients
TopNChain ==
    [b \in 1..(TopN + 2) |->
        IF b <= TopN + 1 THEN <<TxTo(Recipients[b])>>
        ELSE <<TxTo(Recipients[TopN + 1]), TxTo(Recipients[TopN + 1])>>]

\* the range as one chunk, and as the chunks 1..TopN+1 and TopN+2
InitTopN ==
    \E cs \in {TopN + 1, TopN + 2} :
       InitWith(Config(1, TopN + 2, cs, NoInt, TRUE, 1, "none"), TopNChain,
                DefaultCode)

InitChunks ==
    \/ InitExample
    \/ InitTopN
    \/ \E e \in 1..NumBlocks, cs \in 1..NumBlocks :
         \E sh \in Chains(1, e, {"a", "A", "b", "big", "create"}, MaxTxs - 1) :
            InitWith(Config(1, e, cs, NoInt, FALSE, 1, "none"), ChunkChain(sh),
                     DefaultCode)

SpecChunks == InitChunks /\ [][Next]_vars

\* runs for the chunk loop: ranges of up to NumBlocks + 1 blocks, every
\* chunk size up to that, with and without a cap, at most one transaction
PartRanges ==
    {r \in (1..(NumBlocks + 1)) \X (1..(NumBlocks + 1)) : r[1] <= r[2]}

InitPartition ==
    \/ InitExample
    \/ \E r \in PartRanges, cs \in 1..(NumBlocks + 1), cap \in {NoInt, Some(1)} :
         \E sh \in Chains(r[1], r[2], BOOLEAN, 1) :
            InitWith(Config(r[1], r[2], cs, cap, FALSE, 1, "none"), PosChain(sh),
                     DefaultCode)

SpecPartition == InitPartition /\ [][Next]_vars

\* runs for the progress of the chunk loop: every chunk size from 0 up to
\* the length of the range (--chunk-size is any int, line 394); the
\* interpreter keeps taking the next step of the run while there is one
InitLive ==
    \/ InitExample
    \/ \E e \in 1..NumBlocks, cs \in 0..NumBlocks :
         \E sh \in Chains(1, e, BOOLEAN, 1) :
            InitWith(Config(1, e, cs, NoInt, FALSE, 1, "none"), PosChain(sh),
                     DefaultCode)

SpecLive == InitLive /\ [][Next]_vars /\ WF_vars(Next)

(***************************************************************************)
(* The same run with every block's receipts arriving in submission order,  *)
(* as one function of the inputs (lines 175-242, 330-375, tracing aside).  *)
(***************************************************************************)
RECURSIVE RunBlock(_, _, _)
RunBlock(c, txs, i) ==
    IF i > Len(txs) THEN c
    ELSE IF ~txs[i].ok THEN RunBlock(c, txs, i + 1)
    ELSE LET c2 == Fold(c, txs[i], cfg.skip_contract_check, codeAt)
         IN  IF CapReached(c2) THEN c2 ELSE RunBlock(c2, txs, i + 1)

RECURSIVE RunBlocks(_, _, _)
RunBlocks(c, b, e) ==
    IF b > e THEN c
    ELSE LET c2 == RunBlock(c, chain[b], 1)
         IN  IF CapReached(c2) THEN c2 ELSE RunBlocks(c2, b + 1, e)

RECURSIVE RunChunks(_, _, _)
RunChunks(a, from, chunk_size) ==
    IF from > cfg.end THEN a
    ELSE LET ce == Min(from + chunk_size - 1, cfg.end)
         IN  RunChunks(Merge(a, ChunkSummary(RunBlocks(NewChunk, from, ce), from, ce)),
                       ce + 1, chunk_size)

InOrderOverall(chunk_size) ==
    Finalize(NewOverall(cfg), RunChunks(NewAgg, cfg.start, chunk_size))

(***************************************************************************)
(* Vocabulary of the properties                                            *)
(***************************************************************************)
Categories ==
    {"contract_creation", "eth_transfer", "erc20_transfer", "erc721_transfer",
     "erc1155_transfer", "mixed_token_activity", "other_contract_call",
     "other_eoa_call"}

\* overall is complete: lines 362-375 have run
Summarised == pc \in {"dump", "done", "raised_json"}

\* the loop body is waiting for get_code, lines 190-194 done for future fut
MidFold == pc = "get_code"

RangeBlocks == cfg.start..cfg.end

TxIds == {<<b, i>> : b \in RangeBlocks, i \in 1..MaxTxs + 1}

AllTxIds == {id \in TxIds : id[2] <= Len(chain[id[1]])}

TxOf(id) == chain[id[1]][id[2]]

SeqSet(q) == {q[i] : i \in 1..Len(q)}

FoldedIds == {hist.folded[i].id : i \in 1..Len(hist.folded)}

Occurrences(q, x) == Cardinality({i \in 1..Len(q) : q[i] = x})

\* transactions of the range whose receipt fetch succeeds
Available == Cardinality({id \in AllTxIds : TxOf(id).ok})

\* per-category count, gas-used sum and value sum (in wei) agree
SameCategorySums(o1, o2) ==
    /\ DOMAIN o1.tx_types = DOMAIN o2.tx_types
    /\ \A k \in DOMAIN o1.tx_types :
          /\ o1.tx_types[k].count = o2.tx_types[k].count
          /\ o1.tx_types[k].gas_used = o2.tx_types[k].gas_used
          /\ DecimalWei(o1.tx_types[k].eth_value_sum_eth)
                = DecimalWei(o2.tx_types[k].eth_value_sum_eth)

(***************************************************************************)
(* C1  With a cap N the overall total_tx is min(N, transactions available  *)
(* in the range), and no block after the one holding the N-th folded       *)
(* transaction is fetched, in whatever chunk it lies.                      *)
(* The cap is handed to every profile_chunk call, which counts from zero   *)
(* (lines 164, 228, 241, 337), and is tested only after a fold, so that a  *)
(* cap of 0 lets one transaction through; stated here for N >= 1.          *)
(***************************************************************************)
AtLeastOne(cap) == cap # NoInt /\ cap[1] >= 1

\* C1: under a cap N >= 1 the overall total_tx is min(N, available) and no
\* block after the one of the N-th folded transaction is fetched
C1_CapExact ==
    (Summarised /\ AtLeastOne(cfg.tx_cap)) =>
        /\ overall.total_tx = Min(cfg.tx_cap[1], Available)
        /\ Len(hist.folded) >= cfg.tx_cap[1] =>
              \A b \in SeqSet(hist.fetched) :
                  b <= hist.folded[cfg.tx_cap[1]].id[1]

(***************************************************************************)
(* C2  When the cap stops the run before the last requested block, the     *)
(* summary's start_block, end_block and block_count describe the blocks    *)
(* actually processed.  Stated for caps N >= 1.                            *)
(***************************************************************************)
\* C2: a run that the cap stopped early reports the blocks it processed
C2_ReducedRange ==
    (Summarised /\ AtLeastOne(cfg.tx_cap) /\ SeqSet(hist.fetched) # RangeBlocks) =>
        /\ overall.start_block = hist.fetched[1]
        /\ overall.end_block = hist.fetched[Len(hist.fetched)]
        /\ overall.block_count = Cardinality(SeqSet(hist.fetched))

(***************************************************************************)
(* C3  Without a cap, for every chunk size, the overall total_tx, the      *)
(* per-category count and gas_used and the per-category and total value    *)
(* sums, in wei, are those of the run that takes the range as one chunk.   *)
(***************************************************************************)
\* C3: without a cap the merged counts, gas and wei sums are those of the
\* one-chunk run
C3_MergeExact ==
    (Summarised /\ cfg.tx_cap = NoInt) =>
        LET one == InOrderOverall(cfg.end - cfg.start + 1)
        IN  /\ overall.total_tx = one.total_tx
            /\ SameCategorySums(overall, one)
            /\ DecimalWei(overall.total_eth_transferred_eth)
                  = DecimalWei(one.total_eth_transferred_eth)

(***************************************************************************)
(* C4  Whatever the worker count, chunk size and cap, every completion     *)
(* order of the receipt fetches gives the per-category counts, gas-used    *)
(* sums and value sums that the submission order gives (so any two orders  *)
(* give the same).  Stated for no cap and for caps N >= 1.                 *)
(***************************************************************************)
\* C4: with any cap, every completion order gives the category sums of the
\* submission order
C4_OrderInvariantAnyCap ==
    (Summarised /\ (cfg.tx_cap = NoInt \/ AtLeastOne(cfg.tx_cap))) =>
        SameCategorySums(overall, InOrderOverall(cfg.chunk_size))

\* C4 as amended: the same, for the runs in which the cap never stops a
\* block while a fetched receipt of that block is still unfolded
C4_OrderInvariantUncut ==
    (Summarised /\ ~hist.cut) =>
        SameCategorySums(overall, InOrderOverall(cfg.chunk_size))

\* a block of two plain calls was folded in reverse order, under a cap
\* that was reached with the block's last receipt
C4_Witness ==
    /\ Summarised
    /\ ~hist.cut
    /\ cfg.tx_cap # NoInt
    /\ overall.total_tx = cfg.tx_cap[1]
    /\ \E m, n \in 1..Len(hist.folded) :
          /\ m < n
          /\ hist.folded[m].id[1] = hist.folded[n].id[1]
          /\ hist.folded[m].id[2] > hist.folded[n].id[2]
          /\ hist.folded[m].tx_type # hist.folded[n].tx_type

(***************************************************************************)
(* C5  When the range fits in one chunk, every field the overall summary   *)
(* shares with the chunk summary has the chunk summary's value.            *)
(***************************************************************************)
SingleChunk == cfg.chunk_size >= cfg.end - cfg.start + 1

\* the shared fields but the two distinct-address counts; the "..._eth"
\* fields are compared as numbers
SharedFieldsAgree(o, c) ==
    /\ o.start_block = c.start_block
    /\ o.end_block = c.end_block
    /\ o.block_count = c.block_count
    /\ o.total_tx = c.total_tx
    /\ DecimalWei(o.total_eth_transferred_eth) = DecimalWei(c.total_eth_transferred_eth)
    /\ DecimalWei(o.total_internal_value_eth) = DecimalWei(c.total_internal_value_eth)
    /\ SameCategorySums(o, c)
    /\ \A k \in DOMAIN c.tx_types :
          o.tx_types[k].avg_gas_price_gwei = c.tx_types[k].avg_gas_price_gwei
    /\ o.top_contracts_by_tx = c.top_contracts_by_tx
    /\ o.top_tokens_by_events = c.top_tokens_by_events

\* C5: in a one-chunk run every shared field of the overall summary is the
\* chunk summary's, unique_senders and unique_receivers included
C5_MergeIdempotentAllFields ==
    (Summarised /\ SingleChunk) =>
        /\ SharedFieldsAgree(overall, hist.summaries[1])
        /\ overall.unique_senders = hist.summaries[1].unique_senders
        /\ overall.unique_receivers = hist.summaries[1].unique_receivers

\* C5 as amended: every shared field but unique_senders and
\* unique_receivers, which the overall summary reports as -1
C5_MergeIdempotentButUnique ==
    (Summarised /\ SingleChunk) =>
        /\ SharedFieldsAgree(overall, hist.summaries[1])
        /\ overall.unique_senders = -1
        /\ overall.unique_receivers = -1

\* a single chunk with two transfers of one category beyond the Decimal
\* precision, senders and recipients seen, and a traced internal value
C5_Witness ==
    /\ Summarised
    /\ SingleChunk
    /\ Len(hist.summaries) = 1
    /\ hist.summaries[1].unique_senders >= 1
    /\ hist.summaries[1].total_internal_value_eth.int # <<>>
    /\ \E k \in DOMAIN overall.tx_types :
          /\ overall.tx_types[k].count >= 2
          /\ Len(overall.tx_types[k].eth_value_sum_eth.int) = DecimalPrec
    /\ overall.top_contracts_by_tx # <<>>

(***************************************************************************)
(* C6  Every folded transaction gets the category of the first matching    *)
(* rule: no recipient; a token verdict of the logs; value > 0;             *)
(* skip_contract_check; recipient has code or not.  Each folded            *)
(* transaction is counted in exactly one category.                         *)
(***************************************************************************)
IsTransferLog(lg) == lg.topics # <<>> /\ Lower(lg.topics[1]) = SIG_TRANSFER

Is1155Log(lg) ==
    lg.topics # <<>> /\ Lower(lg.topics[1]) \in {SIG_ERC1155_SINGLE, SIG_ERC1155_BATCH}

DataBearing(lg) == lg.data \notin {None, "", "0x"}

CountLogs(logs, P(_)) == Cardinality({i \in 1..Len(logs) : P(logs[i])})

\* the token verdict, from the three counters
LogVerdict(logs) ==
    LET Is20(lg)  == IsTransferLog(lg) /\ DataBearing(lg)
        Is721(lg) == IsTransferLog(lg) /\ ~DataBearing(lg)
        n20   == CountLogs(logs, Is20)
        n721  == CountLogs(logs, Is721)
        n1155 == CountLogs(logs, Is1155Log)
        nonzero == Cardinality({x \in {"erc20", "erc721", "erc1155"} :
                      \/ x = "erc20" /\ n20 > 0
                      \/ x = "erc721" /\ n721 > 0
                      \/ x = "erc1155" /\ n1155 > 0})
    IN  IF nonzero = 0 THEN "none"
        ELSE IF nonzero > 1 THEN "mixed"
        ELSE IF n20 > 0 THEN "erc20"
        ELSE IF n721 > 0 THEN "erc721"
        ELSE "erc1155"

\* the recipient has code: get_code answers bytes that is_contract accepts
HasCode(addr) == codeAt[addr] = "code"

ExpectedCategory(tx) ==
    LET v == LogVerdict(tx.logs)
    IN  CASE tx.to = None -> "contract_creation"
          [] tx.to # None /\ v = "erc20" -> "erc20_transfer"
          [] tx.to # None /\ v = "erc721" -> "erc721_transfer"
          [] tx.to # None /\ v = "erc1155" -> "erc1155_transfer"
          [] tx.to # None /\ v = "mixed" -> "mixed_token_activity"
          [] tx.to # None /\ v = "none" /\ tx.value # <<>> -> "eth_transfer"
          [] tx.to # None /\ v = "none" /\ tx.value = <<>> /\ cfg.skip_contract_check
                -> "other_contract_call"
          [] OTHER -> IF HasCode(Lower(tx.to)) THEN "other_contract_call"
                      ELSE "other_eoa_call"

RECURSIVE SumCounts(_, _)
SumCounts(d, keys) ==
    IF keys = {} THEN 0
    ELSE LET k == CHOOSE x \in keys : TRUE
         IN  d[k].count + SumCounts(d, keys \ {k})

\* C6: each folded transaction has the category of the first matching rule
\* and is counted in exactly one category (the transaction whose fold
\* waits for get_code is counted in total_tx, not yet in a category)
C6_DecisionOrder ==
    /\ \A n \in 1..Len(hist.folded) :
          hist.folded[n].tx_type = ExpectedCategory(TxOf(hist.folded[n].id))
    /\ DOMAIN ck.tx_type_stats \subseteq Categories
    /\ SumCounts(ck.tx_type_stats, DOMAIN ck.tx_type_stats)
          = ck.total_tx - (IF MidFold THEN 1 ELSE 0)

\* a transaction with a recipient, a value and logs of two standards was
\* folded as mixed_token_activity, and the plain call behind it as a call
\* to an account without code
C6_Witness ==
    /\ Summarised
    /\ \E n \in 1..Len(hist.folded) :
          /\ hist.folded[n].tx_type = "mixed_token_activity"
          /\ TxOf(hist.folded[n].id).value # <<>>
    /\ \E n \in 1..Len(hist.folded) : hist.folded[n].tx_type = "other_eoa_call"

(***************************************************************************)
(* C7  classify_from_logs returns the standard whose counter alone is      *)
(* non-zero, mixed_token_activity when more than one is, and its "no token *)
(* activity" answer (other_contract_call, no address) when all are zero.   *)
(***************************************************************************)
VerdictType(v) ==
    CASE v = "erc20" -> "erc20_transfer"
      [] v = "erc721" -> "erc721_transfer"
      [] v = "erc1155" -> "erc1155_transfer"
      [] v = "mixed" -> "mixed_token_activity"
      [] OTHER -> "other_contract_call"

\* C7: classify_from_logs answers by the three counters; no logs, no token
C7_LogVerdict ==
    \A id \in AllTxIds :
        LET r == classify_from_logs(TxOf(id).logs)
        IN  /\ r[1] = VerdictType(LogVerdict(TxOf(id).logs))
            /\ LogVerdict(TxOf(id).logs) = "none" => r[2] = None
            /\ TxOf(id).logs = <<>> => r = <<"other_contract_call", None>>

\* a receipt holding a data-bearing Transfer and a TransferSingle was
\* folded as mixed_token_activity
C7_Witness ==
    \E n \in 1..Len(hist.folded) :
        LET tx == TxOf(hist.folded[n].id)
        IN  /\ tx.to # None
            /\ \E i, j \in 1..Len(tx.logs) :
                  /\ IsTransferLog(tx.logs[i]) /\ DataBearing(tx.logs[i])
                  /\ Is1155Log(tx.logs[j])
            /\ hist.folded[n].tx_type = "mixed_token_activity"

(***************************************************************************)
(* C8  A receipt is requested at most once per run; a transaction whose    *)
(* fetch fails is never folded and changes no statistic; without a cap,    *)
(* every transaction of a fetched block whose fetch succeeds is folded.    *)
(***************************************************************************)
InChunk ==
    pc \in {"block_loop", "as_completed", "get_code", "pool_exit", "trace",
            "raised_get_block"}

\* the transactions folded in the chunk that ck belongs to, the last entered
ChunkFolded ==
    LET r == hist.chunks[Len(hist.chunks)]
    IN  {id \in FoldedIds : r[1] <= id[1] /\ id[1] <= r[2]}

\* the transactions of that chunk whose fold has begun
ChunkBegun == ChunkFolded \cup (IF MidFold THEN {<<bnum, fut>>} ELSE {})

RECURSIVE SumPairs(_)
SumPairs(c) == IF c = <<>> THEN 0 ELSE Head(c)[2] + SumPairs(Tail(c))

\* C8: one request per receipt; a failed fetch changes no statistic and
\* does not keep the block's other receipts from being folded
C8_DroppedNotRetried ==
    /\ \A id \in AllTxIds : Occurrences(hist.requested, id) <= 1
    /\ \A id \in SeqSet(hist.dropped) : ~TxOf(id).ok /\ id \notin FoldedIds
    /\ \A id \in FoldedIds : TxOf(id).ok
    /\ MidFold => TxOf(<<bnum, fut>>).ok /\ <<bnum, fut>> \notin FoldedIds
    /\ agg.total_tx_acc + (IF InChunk THEN ck.total_tx ELSE 0)
          = Len(hist.folded) + (IF MidFold THEN 1 ELSE 0)
    /\ hist.chunks # <<>> =>
          /\ ck.total_tx = Cardinality(ChunkBegun)
          /\ ck.unique_from
                = {Lower(TxOf(id).from) : id \in {x \in ChunkBegun : Truthy(TxOf(x).from)}}
          /\ ck.unique_to
                = {Lower(TxOf(id).to) : id \in {x \in ChunkBegun : Truthy(TxOf(x).to)}}
          /\ SumPairs(ck.top_contracts)
                = Cardinality({id \in ChunkFolded : Truthy(TxOf(id).to)})
          /\ SumCounts(ck.tx_type_stats, DOMAIN ck.tx_type_stats)
                = Cardinality(ChunkFolded)
    /\ cfg.tx_cap = NoInt =>
          \A k \in 1..Len(hist.fetched) :
              (k < Len(hist.fetched) \/ pc \notin {"as_completed", "get_code"}) =>
                  \A i \in 1..Len(chain[hist.fetched[k]]) :
                      chain[hist.fetched[k]][i].ok =>
                          <<hist.fetched[k], i>> \in FoldedIds

\* a block lost one receipt and had another, yielded after it, folded
C8_Witness ==
    /\ Summarised
    /\ cfg.tx_cap = NoInt
    /\ \E d \in SeqSet(hist.dropped), f \in FoldedIds :
          /\ d[1] = f[1]
          /\ d[2] < f[2]

(***************************************************************************)
(* C9  The summary exposes a counter of dropped receipts whose value is    *)
(* the number of fetches that failed.                                      *)
(***************************************************************************)
SummaryFields ==
    {"start_block", "end_block", "chain_id", "block_count", "total_tx",
     "unique_senders", "unique_receivers", "total_eth_transferred_eth",
     "total_internal_value_eth", "tx_types", "top_contracts_by_tx",
     "top_tokens_by_events", "notes", "limits"}

\* C9: the summary has a field holding the number of failed fetches
C9_DroppedCounter ==
    (Summarised /\ hist.dropped # <<>>) =>
        \E f \in DOMAIN overall \ SummaryFields : overall[f] = Len(hist.dropped)

(***************************************************************************)
(* C10  No failing ledger call ends the run: the run goes on with the      *)
(* remaining blocks and the summary is emitted.                            *)
(***************************************************************************)
\* C10: the run is never ended by a failing get_block (line 176)
C10_LedgerFailuresNonFatal == pc # "raised_get_block"

(***************************************************************************)
(* C11  Every entry of the overall top-20 lists carries the address's      *)
(* frequency summed over all chunks, whether or not a chunk listed the     *)
(* address among its own 20, and the lists hold the 20 addresses of        *)
(* highest summed frequency.                                               *)
(***************************************************************************)
\* transactions folded for the recipient addr, over all chunks
RecipientFreq(addr) ==
    Cardinality({id \in FoldedIds :
                    TxOf(id).to # None /\ Lower(TxOf(id).to) = addr})

\* the token address a folded transaction is counted for, if any
TokenOf(id) ==
    IF TxOf(id).to = None THEN None ELSE classify_from_logs(TxOf(id).logs)[2]

TokenFreq(addr) ==
    Cardinality({id \in FoldedIds :
                    TokenOf(id) # None /\ Lower(TokenOf(id)) = addr})

RecipientKeys == {Lower(TxOf(id).to) : id \in {x \in FoldedIds : TxOf(x).to # None}}

TokenKeys == {Lower(TokenOf(id)) : id \in {x \in FoldedIds : TokenOf(x) # None}}

\* list gives the frequency F of each of its addresses and holds TopN
\* addresses of highest F among keys (all of them if they are fewer)
IsTopList(list, keys, F(_)) ==
    LET listed == {list[i][1] : i \in 1..Len(list)}
    IN  /\ \A i \in 1..Len(list) : list[i][2] = F(list[i][1])
        /\ Len(list) = Min(TopN, Cardinality(keys))
        /\ listed \subseteq keys
        /\ \A k \in keys \ listed : \A a \in listed : F(a) >= F(k)

\* C11: the overall top lists carry the frequencies summed over all chunks
\* and hold the 20 addresses of highest summed frequency
C11_TopNMerge ==
    Summarised =>
        /\ IsTopList(overall.top_contracts_by_tx, RecipientKeys, RecipientFreq)
        /\ IsTopList(overall.top_tokens_by_events, TokenKeys, TokenFreq)

(***************************************************************************)
(* C12  Fetch tasks never write the aggregator state, and that state       *)
(* changes only by the control-flow thread folding one yielded receipt at  *)
(* a time.                                                                 *)
(***************************************************************************)
\* the aggregator state of the chunk in progress
Aggregator(c) ==
    <<c.total_tx, c.tx_type_stats, c.unique_from, c.unique_to, c.total_eth_wei,
      c.top_contracts, c.top_tokens, c.contract_cache>>

\* a step of a fetch task: a fetch starts or ends
FetchStep ==
    \E i \in DOMAIN futures :
        /\ futures[i] \in {"queued", "running"}
        /\ futures' = [futures EXCEPT ![i] = IF futures[i] = "queued" THEN "running"
                                              ELSE "finished"]

\* the aggregator state changes within a call of profile_chunk
AggregatorStep == pc # "range_loop" /\ Aggregator(ck)' # Aggregator(ck)

\* C12: a fetch task's step leaves the aggregator state and the merge
\* accumulators alone; a change of the aggregator state is the fold of
\* one fetched receipt, taken by the loop over the block's futures: the
\* start of its body, or the rest of it once get_code has answered
C12_SingleFoldingPath ==
    [][ /\ FetchStep => (Aggregator(ck)' = Aggregator(ck) /\ agg' = agg)
        /\ AggregatorStep =>
              \/ /\ pc = "as_completed"
                 /\ ck'.total_tx = ck.total_tx + 1
                 /\ \E i \in DOMAIN futures :
                       /\ futures[i] = "finished"
                       /\ Txs(bnum)[i].ok
                       /\ futures' = [futures EXCEPT ![i] = "yielded"]
                       /\ pc' = "get_code" => fut' = i
              \/ /\ pc = "get_code"
                 /\ pc' # "get_code"
                 /\ ck'.total_tx = ck.total_tx
                 /\ futures' = futures
                 /\ futures[fut] = "yielded"
                 /\ Txs(bnum)[fut].ok ]_vars

\* the fold of a receipt waits for get_code, after another receipt of the
\* block was folded and while a fetch of the block is in flight
C12_Witness ==
    /\ pc = "get_code"
    /\ ck.total_tx >= 2
    /\ futures[fut] = "yielded" /\ Txs(bnum)[fut].ok
    /\ NumRunning >= 1

(***************************************************************************)
(* C13  At most receipt_workers fetches are in flight, all of the block    *)
(* last fetched, and the with block is left, for the next get_block or     *)
(* the end of the chunk, only when every fetch submitted for the block is  *)
(* done, also when the cap leaves the loop early.                          *)
(***************************************************************************)
\* the fetches in flight are fetches of the block last fetched
SameBlock ==
    \A i \in DOMAIN futures :
        futures[i] = "running" =>
            /\ pc \in {"as_completed", "get_code", "pool_exit"}
            /\ hist.fetched[Len(hist.fetched)] = bnum
            /\ hist.requested[Len(hist.requested)][1] = bnum
            /\ Occurrences(hist.requested, <<bnum, i>>) = 1

\* the control flow leaves the with block of line 179
LeavesBlock == pc = "pool_exit" /\ pc' # "pool_exit"

\* every fetch submitted for the block has run and is done
AllDone ==
    /\ \A i \in DOMAIN futures : futures[i] \in {"finished", "yielded"}
    /\ \A i \in 1..Len(Txs(bnum)) : Occurrences(hist.requested, <<bnum, i>>) = 1

\* C13: never more than receipt_workers fetches in flight, all of one
\* block, and all done before the block is left
C13_BoundedByWorkers ==
    [][ /\ NumRunning <= cfg.concurrency
        /\ SameBlock
        /\ LeavesBlock => AllDone ]_vars

\* C13 as amended: never more than max(1, receipt_workers) fetches in
\* flight, all of one block, and all done before the block is left
C13_BoundedByPoolSize ==
    [][ /\ NumRunning <= Max(1, cfg.concurrency)
        /\ NumRunning' <= Max(1, cfg.concurrency)
        /\ SameBlock /\ SameBlock'
        /\ LeavesBlock => AllDone ]_vars

\* the cap has left the loop over the block's futures while as many
\* fetches as the pool has threads are still in flight
C13_Witness ==
    /\ pc = "pool_exit"
    /\ CapReached(ck)
    /\ cfg.concurrency >= 2
    /\ NumRunning = cfg.concurrency

(***************************************************************************)
(* C14  Over all chunks of a run, get_code is looked up at most once per   *)
(* lower-cased recipient address, and every classification that needs the  *)
(* predicate goes by the first lookup's answer.                            *)
(***************************************************************************)
\* the folded transactions classified by the contract-presence predicate
NeedsPredicate(tx) ==
    /\ tx.to # None
    /\ LogVerdict(tx.logs) = "none"
    /\ tx.value = <<>>
    /\ ~cfg.skip_contract_check

\* C14: no address is looked up twice in a run, and the predicate's
\* answer for an address is the one its lookup gave
C14_CacheOncePerRun ==
    /\ \A i, j \in 1..Len(hist.lookups) :
          i # j => hist.lookups[i] # hist.lookups[j]
    /\ \A n \in 1..Len(hist.folded) :
          LET tx == TxOf(hist.folded[n].id)
          IN  NeedsPredicate(tx) =>
                /\ Lower(tx.to) \in SeqSet(hist.lookups)
                /\ hist.folded[n].tx_type =
                      (IF is_contract(codeAt[Lower(tx.to)]) THEN "other_contract_call"
                       ELSE "other_eoa_call")

(***************************************************************************)
(* C15  When the code lookup raises, a transaction with a recipient, no    *)
(* token logs, value 0 and skip_contract_check unset is folded as          *)
(* other_eoa_call, and the run goes on to its summary.                     *)
(***************************************************************************)
LookupRaises(tx) == NeedsPredicate(tx) /\ codeAt[Lower(tx.to)] = "raises"

\* C15: a transaction whose code lookup raises is folded, as
\* other_eoa_call, and is in the summary the run completes
C15_FailsClosed ==
    /\ \A n \in 1..Len(hist.folded) :
          LookupRaises(TxOf(hist.folded[n].id)) =>
              hist.folded[n].tx_type = "other_eoa_call"
    /\ \A id \in AllTxIds :
          (LookupRaises(TxOf(id)) /\ TxOf(id).ok) =>
              (Summarised =>
                  /\ id \in FoldedIds
                  /\ "other_eoa_call" \in DOMAIN overall.tx_types
                  /\ overall.tx_types["other_eoa_call"].count >= 1)

\* the lookup raised for the recipient of a mixed-case address and the
\* transaction is in the completed summary as other_eoa_call
C15_Witness ==
    /\ Summarised
    /\ \E n \in 1..Len(hist.folded) :
          /\ LookupRaises(TxOf(hist.folded[n].id))
          /\ TxOf(hist.folded[n].id).to = "0xA"
          /\ hist.folded[n].tx_type = "other_eoa_call"
    /\ overall.tx_types["other_eoa_call"].count = 2

(***************************************************************************)
(* C16  For start <= end and chunk_size >= 1 the ranges handed to          *)
(* profile_chunk are ascending, disjoint and contiguous, cover exactly     *)
(* [start, end], and have chunk_size blocks each but for the last, which   *)
(* has 1 to chunk_size; so every block is met once, in block order.        *)
(***************************************************************************)
ChunkBlocks(r) == r[2] - r[1] + 1

\* the ranges handed to profile_chunk so far partition a prefix of
\* [start, end], and the whole of it once the loop has ended
RangesPartition ==
    LET cs == hist.chunks
        n  == Len(hist.chunks)
    IN  /\ n >= 1 => cs[1][1] = cfg.start
        /\ \A k \in 1..n :
              /\ cs[k][1] <= cs[k][2]
              /\ cs[k][2] <= cfg.end
              /\ ChunkBlocks(cs[k]) >= 1
              /\ ChunkBlocks(cs[k]) <= cfg.chunk_size
              /\ cs[k][2] < cfg.end => ChunkBlocks(cs[k]) = cfg.chunk_size
              /\ k < n => cs[k + 1][1] = cs[k][2] + 1
        /\ Summarised => (n >= 1 /\ cs[n][2] = cfg.end)

\* blocks are fetched in ascending order, none twice
FetchedAscending ==
    \A k \in 1..Len(hist.fetched) :
        /\ hist.fetched[k] \in RangeBlocks
        /\ k > 1 => hist.fetched[k - 1] < hist.fetched[k]

\* every block of the range was fetched, in block order
FetchedAll ==
    hist.fetched = [k \in 1..(cfg.end - cfg.start + 1) |-> cfg.start + k - 1]

\* C16: the (cur, chunk_end) ranges partition [start, end] into chunks of
\* chunk_size blocks, the last one possibly shorter, and every block of
\* the range is fetched once, in block order
C16_EveryBlockOnce ==
    cfg.chunk_size >= 1 =>
        /\ RangesPartition
        /\ FetchedAscending
        /\ Summarised => FetchedAll

\* C16 as amended: the same partition; every block lies in one range, is
\* fetched at most once, in block order, and exactly once when no cap is set
C16_ChunkPartition ==
    cfg.chunk_size >= 1 =>
        /\ RangesPartition
        /\ FetchedAscending
        /\ (Summarised /\ cfg.tx_cap = NoInt) => FetchedAll

\* three blocks went as a chunk of two and a last chunk of one
C16_Witness ==
    /\ Summarised
    /\ cfg.tx_cap = NoInt
    /\ cfg.chunk_size = 2
    /\ Len(hist.chunks) = 2
    /\ ChunkBlocks(hist.chunks[1]) = 2
    /\ ChunkBlocks(hist.chunks[2]) = 1
    /\ Len(hist.fetched) = 3

(***************************************************************************)
(* C17  For every partition into chunks, the overall avg_gas_price_gwei of *)
(* a category is within 0.0001 gwei of the average of the raw gas prices   *)
(* of the category's transactions, rounded the same way.                   *)
(***************************************************************************)
\* the gas prices of the first n folded transactions that are of category k
RECURSIVE RawPriceSum(_, _)
RawPriceSum(k, n) ==
    IF n = 0 THEN 0
    ELSE (IF hist.folded[n].tx_type = k THEN TxOf(hist.folded[n].id).gasPrice ELSE 0)
         + RawPriceSum(k, n - 1)

\* the average over the raw prices, in units of 0.0001 gwei
RawAverage(k) ==
    avg_gas_price_gwei(RawPriceSum(k, Len(hist.folded)), overall.tx_types[k].count)

Distance(a, b) == IF a >= b THEN a - b ELSE b - a

\* C17: the overall average of every category is at most one unit of
\* 0.0001 gwei from the rounded average of the raw gas prices
C17_ReconstructedAverage ==
    Summarised =>
        \A k \in DOMAIN overall.tx_types :
            overall.tx_types[k].count > 0 =>
                Distance(overall.tx_types[k].avg_gas_price_gwei, RawAverage(k)) <= 1

\* two chunks whose rounded averages rebuild an average one unit from the
\* raw one
C17_Witness ==
    /\ Summarised
    /\ Len(hist.summaries) >= 2
    /\ \E k \in DOMAIN overall.tx_types :
          /\ overall.tx_types[k].count >= 2
          /\ Distance(overall.tx_types[k].avg_gas_price_gwei, RawAverage(k)) = 1

(***************************************************************************)
(* C18  After every fold and in every chunk and overall summary, total_tx  *)
(* is the sum of the category counts and the total value in wei the sum of *)
(* the category value sums; a fetched transaction is counted once, in one  *)
(* category.                                                               *)
(***************************************************************************)
RECURSIVE SumValues(_, _)
SumValues(d, keys) ==
    IF keys = {} THEN <<>>
    ELSE LET k == CHOOSE x \in keys : TRUE
         IN  IntAdd(d[k], SumValues(d, keys \ {k}))

\* a summary's total_tx and total value are the sums over its categories
SummaryBalanced(o) ==
    /\ o.total_tx = SumCounts(o.tx_types, DOMAIN o.tx_types)
    /\ DecimalWei(o.total_eth_transferred_eth)
          = SumValues([k \in DOMAIN o.tx_types |->
                          DecimalWei(o.tx_types[k].eth_value_sum_eth)],
                      DOMAIN o.tx_types)

\* C18: the totals are the sums over the categories in the aggregator
\* state, in every chunk summary and in the overall summary, and no
\* transaction is folded twice
C18_Accounting ==
    /\ ~MidFold =>
          ck.total_tx = SumCounts(ck.tx_type_stats, DOMAIN ck.tx_type_stats)
    /\ ck.total_eth_wei
          = SumValues([k \in DOMAIN ck.tx_type_stats |->
                          ck.tx_type_stats[k].eth_value_wei_sum],
                      DOMAIN ck.tx_type_stats)
    /\ \A n \in 1..Len(hist.summaries) : SummaryBalanced(hist.summaries[n])
    /\ Summarised => SummaryBalanced(overall)
    /\ \A m, n \in 1..Len(hist.folded) :
          m # n => hist.folded[m].id # hist.folded[n].id

(***************************************************************************)
(* C19  For every start <= end and every chunk size the command line       *)
(* accepts, the chunk loop exits and the summary is emitted, as long as    *)
(* every ledger call returns.                                              *)
(***************************************************************************)
\* a ledger call of the run did not return
LedgerCallRaised == pc = "raised_get_block"

\* C19: every run whose ledger calls return leaves the chunk loop and
\* completes the overall summary
C19_Terminates == <>(Summarised \/ LedgerCallRaised)

====
